---- MODULE Spec2Model ----
(***************************************************************************)
(* Model of backend/scripts/bridge_to_portal_db.py (src/dataGen.py): the   *)
(* bridge script that reads seven source tables and rebuilds the eight     *)
(* entity classes of the portal database.                                  *)
(*                                                                         *)
(* Python values are tagged records [t, s, n]: t is the Python type, s the *)
(* text (a sequence of one-character strings) and n the number.  Text is   *)
(* kept as characters so that strip, zfill, slicing, lower and startswith  *)
(* are computed, not assumed.                                              *)
(***************************************************************************)
EXTENDS Integers, Sequences, FiniteSets, TLC

\* ------------------------------------------------------------------ bounds
MaxRows == 2        \* rows per generated source table (main specification)
MaxRuns == 2        \* consecutive runs of main()
MaxBatch == 1       \* varied rows of one table (transform specification)
MaxLen == 2         \* length of the enumerated identifier texts (norm specification)

\* ------------------------------------------------------- program constants
ClientIdWidth == 7      \* s.zfill(7)
FullNameMax == 120
GenderMax == 16
CountryMax == 64
CityMax == 64
SegmentMax == 40
OccupationMax == 80
RiskRatingMax == 16
AddressLineMax == 160
PhoneMax == 40
LoginIdMax == 40
LoginHexLen == 24
IpAddressMax == 64
IpCountryMax == 8
StatusMax == 16
ChannelMax == 24
TxIdMax == 32
CounterpartyMax == 24
TxTypeMax == 16
DirectionMax == 16
CurrencyMax == 8
CaseHexLen == 20
CaseStatusMax == 20
TitleMax == 180
AlertIdMax == 40
AlertHexLen == 22
SeverityMax == 16
HighScore == 75
StandardScore == 35
UuidHexLen == 32        \* uuid4().hex is 32 hexadecimal characters

\* ------------------------------------------------------------------ values
NoneV == [t |-> "none", s |-> <<>>, n |-> 0]
StrV(s) == [t |-> "str", s |-> s, n |-> 0]
IntV(n) == [t |-> "int", s |-> <<>>, n |-> n]
FloatV(n) == [t |-> "float", s |-> <<>>, n |-> n]
DateV(s) == [t |-> "date", s |-> s, n |-> 0]
DateTimeV(s) == [t |-> "datetime", s |-> s, n |-> 0]
DictV == [t |-> "dict", s |-> <<>>, n |-> 0]
\* the key is absent from the row mapping
MissingV == [t |-> "missing", s |-> <<>>, n |-> 0]
\* the expression raised (TypeError, ValueError)
ErrV == [t |-> "error", s |-> <<>>, n |-> 0]

Digits == <<"0", "1", "2", "3", "4", "5", "6", "7", "8", "9">>
HexDigits == Digits \o <<"a", "b", "c", "d", "e", "f">>
UpperCase == <<"A", "B", "C", "D", "E", "F", "G", "H", "I", "J", "K", "L", "M",
               "N", "O", "P", "Q", "R", "S", "T", "U", "V", "W", "X", "Y", "Z">>
LowerCase == <<"a", "b", "c", "d", "e", "f", "g", "h", "i", "j", "k", "l", "m",
               "n", "o", "p", "q", "r", "s", "t", "u", "v", "w", "x", "y", "z">>

Range(q) == {q[i] : i \in DOMAIN q}
IsDigit(c) == c \in Range(Digits)
AllDigits(s) == \A i \in DOMAIN s : IsDigit(s[i])
DigitVal(c) == (CHOOSE i \in 1..10 : Digits[i] = c) - 1
Rep(c, n) == [i \in 1..n |-> c]
Min(a, b) == IF a < b THEN a ELSE b

\* s[:n]
Take(s, n) == SubSeq(s, 1, Min(n, Len(s)))
\* s[n:]
Drop(s, n) == SubSeq(s, n + 1, Len(s))
\* s.startswith(p)
StartsWith(s, p) == Len(p) <= Len(s) /\ SubSeq(s, 1, Len(p)) = p

\* s.lower()
LowerChar(c) ==
  IF c \in Range(UpperCase)
  THEN LowerCase[CHOOSE i \in 1..26 : UpperCase[i] = c]
  ELSE c
Lower(s) == [i \in DOMAIN s |-> LowerChar(s[i])]

\* s.strip()
IsSpace(c) == c = " "
RECURSIVE LStrip(_)
LStrip(s) == IF s # <<>> /\ IsSpace(s[1]) THEN LStrip(Tail(s)) ELSE s
RECURSIVE RStrip(_)
RStrip(s) ==
  IF s # <<>> /\ IsSpace(s[Len(s)]) THEN RStrip(SubSeq(s, 1, Len(s) - 1)) ELSE s
Strip(s) == RStrip(LStrip(s))

\* s.zfill(w): zeros go after a leading sign
ZFill(s, w) ==
  IF Len(s) >= w THEN s
  ELSE IF s # <<>> /\ s[1] \in {"+", "-"}
       THEN <<s[1]>> \o Rep("0", w - Len(s)) \o Tail(s)
       ELSE Rep("0", w - Len(s)) \o s

\* str(n) of an int
RECURSIVE NatText(_)
NatText(n) == IF n < 10 THEN <<Digits[n + 1]>> ELSE NatText(n \div 10) \o <<Digits[(n % 10) + 1]>>
IntText(n) == IF n < 0 THEN <<"-">> \o NatText(-n) ELSE NatText(n)

\* str(v)
Str(v) ==
  CASE v.t = "none" -> <<"N", "o", "n", "e">>
    [] v.t = "int" -> IntText(v.n)
    [] v.t = "float" -> IntText(v.n) \o <<".", "0">>
    [] v.t = "dict" -> <<"{", "}">>
    [] OTHER -> v.s

\* bool(v): what `v or default` and `if v` test
Truthy(v) ==
  CASE v.t = "none" -> FALSE
    [] v.t = "str" -> v.s # <<>>
    [] v.t \in {"int", "float"} -> v.n # 0
    [] OTHER -> TRUE
\* v or d
Or(v, d) == IF Truthy(v) THEN v ELSE d
\* r.get(f)
Get(r, f) == IF r[f].t = "missing" THEN NoneV ELSE r[f]
\* (v)[:n] : only text can be sliced
Slice(v, n) == IF v.t = "str" THEN StrV(Take(v.s, n)) ELSE ErrV
\* str(v)[:n]
StrSlice(v, n) == StrV(Take(Str(v), n))

\* the number a numeric text denotes: digits, an optional sign, blanks around
NumText(s) ==
  LET b == Strip(s)
      u == IF b # <<>> /\ b[1] \in {"+", "-"} THEN Tail(b) ELSE b
  IN  [ok |-> u # <<>> /\ AllDigits(u), neg |-> b # <<>> /\ b[1] = "-", digits |-> u]
RECURSIVE NatOf(_)
NatOf(s) == IF s = <<>> THEN 0 ELSE 10 * NatOf(SubSeq(s, 1, Len(s) - 1)) + DigitVal(s[Len(s)])
NumOf(s) == IF NumText(s).neg THEN -NatOf(NumText(s).digits) ELSE NatOf(NumText(s).digits)
\* float(v)
Float(v) ==
  CASE v.t \in {"int", "float"} -> FloatV(v.n)
    [] v.t = "str" -> IF NumText(v.s).ok THEN FloatV(NumOf(v.s)) ELSE ErrV
    [] OTHER -> ErrV
\* int(v)
Int_(v) ==
  CASE v.t \in {"int", "float"} -> IntV(v.n)
    [] v.t = "str" -> IF NumText(v.s).ok THEN IntV(NumOf(v.s)) ELSE ErrV
    [] OTHER -> ErrV

\* --------------------------------------------------------- text constants
TxtUnknownClient == <<"U", "n", "k", "n", "o", "w", "n", " ", "C", "l", "i", "e", "n", "t">>
TxtX == <<"X">>
TxtUnknown == <<"U", "n", "k", "n", "o", "w", "n">>
TxtRetail == <<"r", "e", "t", "a", "i", "l">>
TxtUnknownLc == <<"u", "n", "k", "n", "o", "w", "n">>
TxtStandard == <<"S", "t", "a", "n", "d", "a", "r", "d">>
TxtHigh == <<"h", "i", "g", "h">>
TxtImported == <<"I", "m", "p", "o", "r", "t", "e", "d", " ", "f", "r", "o", "m", " ",
                 "p", "r", "o", "d", "u", "c", "t", "i", "o", "n", " ",
                 "s", "o", "u", "r", "c", "e">>
TxtZeroIp == <<"0", ".", "0", ".", "0", ".", "0">>
TxtUNK == <<"U", "N", "K">>
TxtSuccess == <<"s", "u", "c", "c", "e", "s", "s">>
TxtWeb == <<"w", "e", "b">>
TxtCP == <<"C", "P", "0", "0", "0", "0", "0", "0">>
TxtWire == <<"w", "i", "r", "e">>
TxtOutgoing == <<"o", "u", "t", "g", "o", "i", "n", "g">>
TxtUSD == <<"U", "S", "D">>
TxtOpen == <<"O", "p", "e", "n">>
TxtImportedCase == <<"I", "m", "p", "o", "r", "t", "e", "d", " ", "c", "a", "s", "e">>
TxtMedium == <<"M", "e", "d", "i", "u", "m">>
TxtImportedAlert == <<"I", "m", "p", "o", "r", "t", "e", "d", " ", "a", "l", "e", "r", "t">>
TxtEpoch == <<"1", "9", "9", "0", "-", "0", "1", "-", "0", "1">>
TxtUtcOffset == <<"+", "0", "0", ":", "0", "0">>
PrefixClient == <<"C">>
PrefixLogin == <<"L", "G", "-">>
PrefixAlert == <<"A", "L", "-">>
PrefixCase == <<"C", "A", "S", "E", "-">>

\* date(1990, 1, 1), the default of to_date
EpochV == DateV(TxtEpoch)
\* date.today() and datetime.utcnow(): the clock's value, whatever it is
TodayV == DateV(<<"t", "o", "d", "a", "y">>)
NowV == DateTimeV(<<"n", "o", "w">>)

\* ------------------------------------------------------------ ISO parsing
(* datetime.fromisoformat on the forms YYYY-MM-DD, YYYY-MM-DD?hh:mm:ss and   *)
(* the latter followed by +00:00.  Every text the specifications feed it is  *)
(* either of these forms or one Python rejects as well.                      *)
TwoDigits(s, i) == 10 * DigitVal(s[i]) + DigitVal(s[i + 1])
LeapYear(y) == (y % 4 = 0 /\ y % 100 # 0) \/ y % 400 = 0
DaysIn(y, m) ==
  IF m = 2 THEN (IF LeapYear(y) THEN 29 ELSE 28)
  ELSE IF m \in {4, 6, 9, 11} THEN 30 ELSE 31
IsoDate(s) ==
  /\ Len(s) = 10
  /\ s[5] = "-" /\ s[8] = "-"
  /\ \A i \in {1, 2, 3, 4, 6, 7, 9, 10} : IsDigit(s[i])
  /\ NatOf(SubSeq(s, 1, 4)) >= 1
  /\ TwoDigits(s, 6) \in 1..12
  /\ TwoDigits(s, 9) \in 1..DaysIn(NatOf(SubSeq(s, 1, 4)), TwoDigits(s, 6))
IsoTime(s) ==
  /\ Len(s) = 8
  /\ s[3] = ":" /\ s[6] = ":"
  /\ \A i \in {1, 2, 4, 5, 7, 8} : IsDigit(s[i])
  /\ TwoDigits(s, 1) < 24 /\ TwoDigits(s, 4) < 60 /\ TwoDigits(s, 7) < 60
IsoDateTime(s) ==
  \/ IsoDate(s)
  \/ Len(s) = 19 /\ IsoDate(Take(s, 10)) /\ IsoTime(Drop(s, 11))
  \/ /\ Len(s) = 25
     /\ IsoDate(Take(s, 10))
     /\ IsoTime(SubSeq(s, 12, 19))
     /\ Drop(s, 19) = TxtUtcOffset
\* s.replace("Z", "+00:00")
RECURSIVE ReplaceZ(_)
ReplaceZ(s) ==
  IF s = <<>> THEN <<>>
  ELSE (IF s[1] = "Z" THEN TxtUtcOffset ELSE <<s[1]>>) \o ReplaceZ(Tail(s))

\* ----------------------------------------------------------------- helpers
\* to_date(v, default)
to_date(v, default) ==
  IF v.t = "none" THEN default
  ELSE IF v.t \in {"date", "datetime"} THEN v
  ELSE IF IsoDateTime(Str(v)) THEN DateV(Take(Str(v), 10))
  ELSE default

\* to_dt(v): default is datetime.utcnow()
to_dt(v) ==
  IF v.t = "none" THEN NowV
  ELSE IF v.t = "datetime" THEN v
  ELSE IF IsoDateTime(ReplaceZ(Str(v))) THEN DateTimeV(ReplaceZ(Str(v)))
  ELSE NowV

\* norm_client_id without the startswith test: a plausible slip
norm_client_id_always_prefix(v) == PrefixClient \o ZFill(Strip(Str(v)), ClientIdWidth)
\* norm_client_id padding to one digit less
norm_client_id_short_pad(v) ==
  LET s == Strip(Str(v))
  IN  IF ~StartsWith(s, PrefixClient) THEN PrefixClient \o ZFill(s, ClientIdWidth - 1) ELSE s
\* norm_client_id(v)
norm_client_id(v) ==
  LET s == Strip(Str(v))
  IN  IF ~StartsWith(s, PrefixClient) THEN PrefixClient \o ZFill(s, ClientIdWidth) ELSE s

\* uuid4().hex of the n-th token drawn in the process: 32 hexadecimal
\* characters.  Tokens are taken to be distinct and to differ within their
\* first 20 characters (random 128-bit tokens collide with negligible
\* probability); the token number is spelled by the first two characters.
Uuid4Hex(n) ==
  <<HexDigits[((n \div 16) % 16) + 1], HexDigits[(n % 16) + 1]>> \o Rep("0", UuidHexLen - 2)

\* norm_case_id(v), u tokens drawn so far: [id, u]
norm_case_id(v, u) ==
  LET s == IF v.t # "none" THEN Strip(Str(v)) ELSE <<>>
  IN  IF s # <<>> THEN [id |-> StrV(s), u |-> u]
      ELSE [id |-> StrV(PrefixCase \o Take(Uuid4Hex(u), CaseHexLen)), u |-> u + 1]

\* r["client_id"]: KeyError when the key is absent
Item(r, f) == IF r[f].t = "missing" THEN ErrV ELSE r[f]
\* norm_client_id(r["client_id"])
ClientKey(r) ==
  IF Item(r, "client_id").t = "error" THEN ErrV
  ELSE StrV(norm_client_id(Item(r, "client_id")))
\* the construction of a record raised
Raised(obj) == \E f \in DOMAIN obj : obj[f].t = "error"

\* ------------------------------------------------------------- transformers
\* risk_score compared without lower(): a plausible slip
RiskScoreCaseSensitive(rating) ==
  FloatV(IF StartsWith(rating.s, TxtHigh) THEN HighScore ELSE StandardScore)
\* 75.0 if c.risk_rating.lower().startswith("high") else 35.0
RiskScore(rating) ==
  FloatV(IF StartsWith(Lower(rating.s), TxtHigh) THEN HighScore ELSE StandardScore)

\* Client(...) of one row of client_information
MakeClient(r) ==
  [client_id |-> ClientKey(r),
   full_name |-> Slice(Or(Get(r, "full_name"), StrV(TxtUnknownClient)), FullNameMax),
   dob |-> to_date(Get(r, "dob"), EpochV),
   gender |-> Slice(Or(Get(r, "gender"), StrV(TxtX)), GenderMax),
   country |-> Slice(Or(Get(r, "country"), StrV(TxtUnknown)), CountryMax),
   city |-> Slice(Or(Get(r, "city"), StrV(TxtUnknown)), CityMax),
   segment |-> Slice(Or(Get(r, "segment"), StrV(TxtRetail)), SegmentMax),
   occupation |-> Slice(Or(Get(r, "occupation"), StrV(TxtUnknownLc)), OccupationMax),
   annual_income |-> Float(Or(Get(r, "annual_income"), IntV(0))),
   account_open_date |-> to_date(Get(r, "account_open_date"), TodayV),
   pep_flag |-> Int_(Or(Get(r, "pep_flag"), IntV(0))),
   sanctions_flag |-> Int_(Or(Get(r, "sanctions_flag"), IntV(0))),
   profile_text |-> Or(Get(r, "profile_text"), StrV(<<>>)),
   risk_rating |-> Slice(Or(Get(r, "risk_rating"), StrV(TxtStandard)), RiskRatingMax)]

\* RiskResult(...) built beside Client c
MakeRiskResult(c) ==
  [client_id |-> c.client_id,
   risk_score |-> RiskScore(c.risk_rating),
   rule_hits |-> DictV,
   model_reason |-> StrV(TxtImported),
   last_updated |-> NowV]

\* to_date(r.get("to_date")) if r.get("to_date") else None
OptDate(v) == IF Truthy(v) THEN to_date(v, EpochV) ELSE NoneV
\* to_dt(r.get("closed_at")) if r.get("closed_at") else None
OptDt(v) == IF Truthy(v) THEN to_dt(v) ELSE NoneV

\* ClientAddressHistory(...)
MakeAddress(r) ==
  [client_id |-> ClientKey(r),
   address_line |-> Slice(Or(Get(r, "address_line"), StrV(<<>>)), AddressLineMax),
   city |-> Slice(Or(Get(r, "city"), StrV(TxtUnknown)), CityMax),
   country |-> Slice(Or(Get(r, "country"), StrV(TxtUnknown)), CountryMax),
   from_date |-> to_date(Get(r, "from_date"), TodayV),
   to_date |-> OptDate(Get(r, "to_date"))]

\* ClientPhoneHistory(...)
MakePhone(r) ==
  [client_id |-> ClientKey(r),
   phone |-> Slice(Or(Get(r, "phone"), StrV(<<>>)), PhoneMax),
   from_date |-> to_date(Get(r, "from_date"), TodayV),
   to_date |-> OptDate(Get(r, "to_date"))]

\* the login identifier synthesized without advancing the token: a plausible slip
LoginIdStaleToken(v, u) ==
  [id |-> StrSlice(Or(v, StrV(PrefixLogin \o Take(Uuid4Hex(0), LoginHexLen))), LoginIdMax),
   u |-> u]
\* str(r.get("log_id") or f"LG-{uuid4().hex[:24]}")[:40]
LoginId(v, u) ==
  [id |-> StrSlice(Or(v, StrV(PrefixLogin \o Take(Uuid4Hex(u), LoginHexLen))), LoginIdMax),
   u |-> IF Truthy(v) THEN u ELSE u + 1]
\* str(r.get("tx_id") or uuid4().hex)[:32]
TxId(v, u) ==
  [id |-> StrSlice(Or(v, StrV(Uuid4Hex(u))), TxIdMax),
   u |-> IF Truthy(v) THEN u ELSE u + 1]
\* str(r.get("alert_id") or f"AL-{uuid4().hex[:22]}")[:40]
AlertId(v, u) ==
  [id |-> StrSlice(Or(v, StrV(PrefixAlert \o Take(Uuid4Hex(u), AlertHexLen))), AlertIdMax),
   u |-> IF Truthy(v) THEN u ELSE u + 1]
\* norm_case_id(r.get("case_id")) if r.get("case_id") else None
AlertCaseId(v, u) == IF Truthy(v) THEN norm_case_id(v, u) ELSE [id |-> NoneV, u |-> u]

\* LoginActivity(...)
MakeLogin(r, u) ==
  [login_id |-> LoginId(Get(r, "log_id"), u).id,
   client_id |-> ClientKey(r),
   ip_address |-> Slice(Or(Get(r, "ip_address"), StrV(TxtZeroIp)), IpAddressMax),
   ip_country |-> Slice(Or(Get(r, "ip_country"), StrV(TxtUNK)), IpCountryMax),
   status |-> Slice(Or(Get(r, "status"), StrV(TxtSuccess)), StatusMax),
   channel |-> Slice(Or(Get(r, "channel"), StrV(TxtWeb)), ChannelMax),
   logged_in_at |-> to_dt(Get(r, "logged_in_at"))]

\* Transaction(...)
MakeTransaction(r, u) ==
  [tx_id |-> TxId(Get(r, "tx_id"), u).id,
   client_id |-> ClientKey(r),
   counterparty_id |-> StrSlice(Or(Get(r, "counterparty_id"), StrV(TxtCP)), CounterpartyMax),
   tx_type |-> Slice(Or(Get(r, "tx_type"), StrV(TxtWire)), TxTypeMax),
   direction |-> Slice(Or(Get(r, "direction"), StrV(TxtOutgoing)), DirectionMax),
   amount |-> Float(Or(Get(r, "amount"), IntV(0))),
   currency |-> Slice(Or(Get(r, "currency"), StrV(TxtUSD)), CurrencyMax),
   channel |-> Slice(Or(Get(r, "channel"), StrV(TxtWeb)), ChannelMax),
   country |-> Slice(Or(Get(r, "country"), StrV(TxtUnknown)), CountryMax),
   timestamp |-> to_dt(Get(r, "timestamp")),
   typology_tags |-> Or(Get(r, "typology_tags"), DictV)]

\* Case(...)
MakeCase(r, u) ==
  [case_id |-> norm_case_id(Get(r, "case_id"), u).id,
   client_id |-> ClientKey(r),
   status |-> Slice(Or(Get(r, "status"), StrV(TxtOpen)), CaseStatusMax),
   opened_at |-> to_dt(Get(r, "opened_at")),
   closed_at |-> OptDt(Get(r, "closed_at")),
   title |-> Slice(Or(Get(r, "title"), StrV(TxtImportedCase)), TitleMax)]

\* Alert(...): the alert identifier is evaluated before the case identifier
MakeAlert(r, u) ==
  [alert_id |-> AlertId(Get(r, "alert_id"), u).id,
   client_id |-> ClientKey(r),
   case_id |-> AlertCaseId(Get(r, "case_id"), AlertId(Get(r, "alert_id"), u).u).id,
   severity |-> Slice(Or(Get(r, "severity"), StrV(TxtMedium)), SeverityMax),
   status |-> Slice(Or(Get(r, "status"), StrV(TxtOpen)), StatusMax),
   created_at |-> to_dt(Get(r, "created_at")),
   description |-> Or(Get(r, "description"), StrV(TxtImportedAlert))]

\* ---------------------------------------------------------------- batches
\* the source tables in extraction order, and the entity classes
Tables == <<"clients", "addresses", "phones", "ip_logs", "txs", "cases", "alerts">>
Classes == <<"Client", "RiskResult", "ClientAddressHistory", "ClientPhoneHistory",
             "LoginActivity", "Transaction", "Case", "Alert">>
ClassSet == Range(Classes)
Batches == 1..Len(Tables)
\* the class whose list batch b's loop fills (batch 1 fills RiskResult beside it)
BatchClass(b) == IF b = 1 THEN "Client" ELSE Classes[b + 1]
\* the source table an entity class is loaded from
TableOf(c) == IF c \in {"Client", "RiskResult"} THEN "clients"
              ELSE Tables[(CHOOSE i \in 1..Len(Classes) : Classes[i] = c) - 1]

\* one iteration of batch b's loop over row r with u tokens drawn so far:
\* the objects appended per class, and the tokens drawn afterwards
LoopBody(b, r, u) ==
  CASE b = 1 -> [new |-> <<MakeClient(r)>>, u |-> u]
    [] b = 2 -> [new |-> <<MakeAddress(r)>>, u |-> u]
    [] b = 3 -> [new |-> <<MakePhone(r)>>, u |-> u]
    [] b = 4 -> [new |-> <<MakeLogin(r, u)>>, u |-> LoginId(Get(r, "log_id"), u).u]
    [] b = 5 -> [new |-> <<MakeTransaction(r, u)>>, u |-> TxId(Get(r, "tx_id"), u).u]
    [] b = 6 -> [new |-> <<MakeCase(r, u)>>, u |-> norm_case_id(Get(r, "case_id"), u).u]
    [] b = 7 -> [new |-> <<MakeAlert(r, u)>>,
                 u |-> AlertCaseId(Get(r, "case_id"), AlertId(Get(r, "alert_id"), u).u).u]

\* ------------------------------------------------------------------- state
VARIABLES
  pc,          \* <<label, index>>: the statement of main() about to run
  run,         \* which invocation of main() this is (1, 2, ...)
  source,      \* the source database: table -> rows
  target,      \* the target database as committed: class -> stored rows
  session,     \* what db (the session) sees: target plus uncommitted changes
  rows,        \* the extracted row lists (clients, addresses, ...)
  objs,        \* client_objs, risk_objs, addr_objs, ...: class -> objects
  uuid,        \* uuid4 tokens drawn so far in this process
  log,         \* history: the phases this run has passed, in order
  fail,        \* history: the statement that raised, <<"none", 0>> if none
  completed,   \* history: runs that reached the completion summary
  doneCounts,  \* history: the per-class row counts seen at each completion
  norm_in,     \* the value handed to norm_client_id (norm specification)
  norm_out     \* its results: first call, then the call on the first result

vars == <<pc, run, source, target, session, rows, objs, uuid, log, fail,
          completed, doneCounts, norm_in, norm_out>>
mainVars == <<pc, run, source, target, session, rows, objs, uuid, log, fail,
              completed, doneCounts>>

TableSet == Range(Tables)
NoFail == <<"none", 0>>
EmptyStore == [c \in ClassSet |-> <<>>]
EmptyRows == [k \in TableSet |-> <<>>]
\* a stored row: the object, and (history) the run that inserted it
Stored(r, o) == [run |-> r, obj |-> o]
Counts(store) == [c \in ClassSet |-> Len(store[c])]

\* ------------------------------------------------------------ program order
BatchOfClass(ci) == IF ci <= 2 THEN 1 ELSE ci - 1
\* the loops over the later tables started after the first extraction only
AfterExtractEarly(i) == <<"build", 1>>
\* lines 191-197, then the clients loop
AfterExtract(i) == IF i < Len(Tables) THEN <<"extract", i + 1>> ELSE <<"build", 1>>
\* after batch b is committed or skipped: the next loop, or the summary
AfterBatch(b) == IF b < Len(Tables) THEN <<"build", b + 1>> ELSE <<"summary", 0>>
\* after batch b's loop over n rows: `if addr_objs:` and its like (not for clients)
AfterBuild(b, n) ==
  IF b = 1 THEN <<"save", 1>>
  ELSE IF n > 0 THEN <<"save", b + 1>> ELSE AfterBatch(b)
\* after bulk_save_objects of class ci
AfterSave(ci) == IF ci = 1 THEN <<"save", 2>> ELSE <<"commit", BatchOfClass(ci)>>

\* the deletes leave RiskResult and Client alone: a plausible slip
ClearedKeepClients(sess) ==
  [c \in ClassSet |-> IF c \in {"Client", "RiskResult"} THEN sess[c] ELSE <<>>]
\* db.query(X).delete() for the eight classes
Cleared(sess) == [c \in ClassSet |-> <<>>]

\* close() that flushes and commits what is pending: a plausible slip
CloseSessionCommits(tgt, sess) == sess
\* db.close() with uncommitted changes: they are rolled back
CloseSession(tgt, sess) == tgt

\* bulk_save_objects that commits by itself: a plausible slip (autocommit)
CommittedAfterSaveAuto(tgt, sess) == sess
\* bulk_save_objects under autocommit=False: the database is not touched
CommittedAfterSave(tgt, sess) == tgt

\* -------------------------------------------------------------- main(): steps
\* SOURCE_DB_URL is set: engines, create_all, a new session
Start ==
  /\ pc = <<"start", 0>>
  /\ pc' = <<"clear", 0>>
  /\ session' = target
  /\ UNCHANGED <<run, source, target, rows, objs, uuid, log, fail, completed,
                 doneCounts, norm_in, norm_out>>

\* SOURCE_DB_URL is not set: RuntimeError before any store access
ConfigError ==
  /\ pc = <<"start", 0>>
  /\ pc' = <<"failed", 0>>
  /\ fail' = <<"start", 0>>
  /\ UNCHANGED <<run, source, target, session, rows, objs, uuid, log, completed,
                 doneCounts, norm_in, norm_out>>

\* the eight deletes, in the session
ClearTarget ==
  /\ pc = <<"clear", 0>>
  /\ session' = Cleared(session)
  /\ pc' = <<"commit_clear", 0>>
  /\ UNCHANGED <<run, source, target, rows, objs, uuid, log, fail, completed,
                 doneCounts, norm_in, norm_out>>

\* db.commit() of the deletes
CommitClear ==
  /\ pc = <<"commit_clear", 0>>
  /\ target' = session
  /\ log' = Append(log, <<"reset", 0>>)
  /\ pc' = <<"extract", 1>>
  /\ UNCHANGED <<run, source, session, rows, objs, uuid, fail, completed,
                 doneCounts, norm_in, norm_out>>

\* extract_clients(src), extract_addresses(src), ...: table i is read whole
Extract(i) ==
  /\ pc = <<"extract", i>>
  /\ rows' = [rows EXCEPT ![Tables[i]] = source[Tables[i]]]
  /\ log' = Append(log, <<"extract", i>>)
  /\ pc' = AfterExtract(i)
  /\ UNCHANGED <<run, source, target, session, objs, uuid, fail, completed,
                 doneCounts, norm_in, norm_out>>

\* the row batch b's loop is about to transform
NextRow(b) == rows[Tables[b]][Len(objs[BatchClass(b)]) + 1]
MoreRows(b) == Len(objs[BatchClass(b)]) < Len(rows[Tables[b]])

\* one iteration of `for r in ...` that does not raise
BuildRow(b) ==
  /\ pc = <<"build", b>>
  /\ MoreRows(b)
  /\ LET it == LoopBody(b, NextRow(b), uuid)
     IN  /\ ~Raised(it.new[1])
         /\ objs' = [objs EXCEPT
                       ![BatchClass(b)] = Append(@, it.new[1]),
                       !["RiskResult"] =
                          IF b = 1 THEN Append(@, MakeRiskResult(it.new[1])) ELSE @]
         /\ uuid' = it.u
  /\ log' = Append(log, <<"row", b>>)
  /\ UNCHANGED <<pc, run, source, target, session, rows, fail, completed,
                 doneCounts, norm_in, norm_out>>

\* one iteration that raises (KeyError, TypeError, ValueError): finally db.close()
BuildRaise(b) ==
  /\ pc = <<"build", b>>
  /\ MoreRows(b)
  /\ Raised(LoopBody(b, NextRow(b), uuid).new[1])
  /\ pc' = <<"failed", 0>>
  /\ fail' = pc
  /\ target' = CloseSession(target, session)
  /\ session' = CloseSession(target, session)
  /\ UNCHANGED <<run, source, rows, objs, uuid, log, completed, doneCounts,
                 norm_in, norm_out>>

\* the loop of batch b ends
BuildDone(b) ==
  /\ pc = <<"build", b>>
  /\ ~MoreRows(b)
  /\ pc' = AfterBuild(b, Len(objs[BatchClass(b)]))
  /\ UNCHANGED <<run, source, target, session, rows, objs, uuid, log, fail,
                 completed, doneCounts, norm_in, norm_out>>

\* db.bulk_save_objects(objs of class ci)
Save(ci) ==
  /\ pc = <<"save", ci>>
  /\ session' = [session EXCEPT
                   ![Classes[ci]] = @ \o [i \in DOMAIN objs[Classes[ci]] |->
                                            Stored(run, objs[Classes[ci]][i])]]
  /\ target' = CommittedAfterSave(target, session')
  /\ pc' = AfterSave(ci)
  /\ UNCHANGED <<run, source, rows, objs, uuid, log, fail, completed,
                 doneCounts, norm_in, norm_out>>

\* db.commit() of batch b
Commit(b) ==
  /\ pc = <<"commit", b>>
  /\ target' = session
  /\ log' = Append(log, <<"commit", b>>)
  /\ pc' = AfterBatch(b)
  /\ UNCHANGED <<run, source, session, rows, objs, uuid, fail, completed,
                 doneCounts, norm_in, norm_out>>

\* the three prints, then finally db.close()
Summary ==
  /\ pc = <<"summary", 0>>
  /\ log' = Append(log, <<"summary", 0>>)
  /\ pc' = <<"done", 0>>
  /\ target' = CloseSession(target, session)
  /\ session' = CloseSession(target, session)
  /\ completed' = completed + 1
  /\ doneCounts' = doneCounts \cup {Counts(target')}
  /\ UNCHANGED <<run, source, rows, objs, uuid, fail, norm_in, norm_out>>

\* the statements that talk to a database
StoreSteps == {"clear", "commit_clear", "extract", "save", "commit"}
\* a store raises (connection lost, constraint violation, disk full):
\* the exception leaves main() through finally db.close()
StoreFail ==
  /\ pc[1] \in StoreSteps
  /\ pc' = <<"failed", 0>>
  /\ fail' = pc
  /\ target' = CloseSession(target, session)
  /\ session' = CloseSession(target, session)
  /\ UNCHANGED <<run, source, rows, objs, uuid, log, completed, doneCounts,
                 norm_in, norm_out>>

\* the script is invoked again, against the same source: a new process,
\* whose locals are those of a first run
NextRun ==
  /\ pc[1] \in {"done", "failed"}
  /\ run < MaxRuns
  /\ run' = run + 1
  /\ pc' = <<"start", 0>>
  /\ rows' = EmptyRows
  /\ objs' = EmptyStore
  /\ uuid' = 0
  /\ log' = <<>>
  /\ fail' = NoFail
  /\ UNCHANGED <<source, target, session, completed, doneCounts, norm_in, norm_out>>

Next ==
  \/ Start
  \/ ConfigError
  \/ ClearTarget
  \/ CommitClear
  \/ \E i \in Batches : Extract(i)
  \/ \E b \in Batches : BuildRow(b)
  \/ \E b \in Batches : BuildRaise(b)
  \/ \E b \in Batches : BuildDone(b)
  \/ \E ci \in 1..Len(Classes) : Save(ci)
  \/ \E b \in Batches : Commit(b)
  \/ Summary
  \/ StoreFail
  \/ NextRun

\* ------------------------------------------------------------------ inputs
TxtAnn == <<"A", "n", "n">>
TxtHighRisk == <<"H", "i", "g", "h", " ", "R", "i", "s", "k">>
TxtDate == <<"2", "0", "2", "0", "-", "0", "2", "-", "2", "9">>
TxtStamp == TxtDate \o <<"T", "1", "0", ":", "3", "0", ":", "0", "0">>
TxtK == <<"K", "1">>

\* a well-formed row of each table, for the client with source identifier cid
CleanRow(k, cid) ==
  CASE k = "clients" ->
         [client_id |-> cid, full_name |-> StrV(TxtAnn), dob |-> StrV(TxtDate),
          gender |-> StrV(<<"F">>), country |-> StrV(<<"N", "L">>),
          city |-> StrV(<<"U">>), segment |-> StrV(TxtRetail),
          occupation |-> StrV(<<"d", "r">>), annual_income |-> IntV(50),
          account_open_date |-> DateV(TxtDate), pep_flag |-> IntV(0),
          sanctions_flag |-> IntV(1), profile_text |-> StrV(<<"p">>),
          risk_rating |-> StrV(TxtHighRisk)]
    [] k = "addresses" ->
         [client_id |-> cid, address_line |-> StrV(<<"1", " ", "A">>),
          city |-> StrV(<<"U">>), country |-> StrV(<<"N", "L">>),
          from_date |-> StrV(TxtDate), to_date |-> NoneV]
    [] k = "phones" ->
         [client_id |-> cid, phone |-> StrV(<<"5", "5", "5">>),
          from_date |-> StrV(TxtDate), to_date |-> NoneV]
    [] k = "ip_logs" ->
         [log_id |-> StrV(TxtK), client_id |-> cid, ip_address |-> StrV(<<"1">>),
          ip_country |-> StrV(<<"N", "L">>), status |-> StrV(TxtSuccess),
          channel |-> StrV(TxtWeb), logged_in_at |-> StrV(TxtStamp)]
    [] k = "txs" ->
         [tx_id |-> StrV(TxtK), client_id |-> cid, counterparty_id |-> IntV(3),
          tx_type |-> StrV(TxtWire), direction |-> StrV(TxtOutgoing),
          amount |-> IntV(10), currency |-> StrV(TxtUSD), channel |-> StrV(TxtWeb),
          country |-> StrV(<<"N", "L">>), timestamp |-> StrV(TxtStamp),
          typology_tags |-> DictV]
    [] k = "cases" ->
         [case_id |-> StrV(TxtK), client_id |-> cid, status |-> StrV(TxtOpen),
          opened_at |-> StrV(TxtStamp), closed_at |-> NoneV, title |-> StrV(<<"t">>)]
    [] k = "alerts" ->
         [alert_id |-> StrV(TxtK), client_id |-> cid, case_id |-> NoneV,
          severity |-> StrV(TxtMedium), status |-> StrV(TxtOpen),
          created_at |-> StrV(TxtStamp), description |-> StrV(<<"d">>)]

\* the column holding the row's own identifier, "" for a table without one
IdColumn(k) ==
  CASE k = "ip_logs" -> "log_id"
    [] k = "txs" -> "tx_id"
    [] k = "cases" -> "case_id"
    [] k = "alerts" -> "alert_id"
    [] OTHER -> ""

\* the i-th client of the source: integer keys 1, 2, ...
ClientRow(i) ==
  [CleanRow("clients", IntV(i)) EXCEPT
     !.risk_rating = IF i = 1 THEN StrV(TxtHighRisk) ELSE NoneV]

\* rows of a child table as the main specification varies them:
\* well-formed, referring to no client, without the client_id key
RowKinds == {"clean", "orphan", "nokey"}
KindRow(k, kind) ==
  CASE kind = "clean" -> CleanRow(k, IntV(1))
    [] kind = "orphan" -> CleanRow(k, IntV(9))
    [] kind = "nokey" -> CleanRow(k, MissingV)
    [] kind = "noid" ->
         IF IdColumn(k) = "" THEN CleanRow(k, IntV(1))
         ELSE [CleanRow(k, IntV(1)) EXCEPT ![IdColumn(k)] = NoneV]

\* the object of class c a clean row gives: what an earlier load left behind
OldObject(c) ==
  LET o == LoopBody((CHOOSE b \in Batches : Tables[b] = TableOf(c)),
                    CleanRow(TableOf(c), IntV(1)), 0).new[1]
  IN  IF c = "RiskResult" THEN MakeRiskResult(o) ELSE o
\* the target before the first run: empty, or one row per class from run 0
PriorStores == {EmptyStore, [c \in ClassSet |-> <<Stored(0, OldObject(c))>>]}

\* the sources of the main specification: no client or MaxRows clients, no
\* row or MaxRows well-formed rows in each child table, except one table
\* that holds up to MaxRows rows of one kind
Sources ==
  {[k \in TableSet |->
      IF k = "clients" THEN [i \in 1..nc |-> ClientRow(i)]
      ELSE IF k = Tables[odd] THEN [i \in 1..m |-> KindRow(k, kind)]
      ELSE [i \in 1..n |-> CleanRow(k, IntV(1))]] :
     nc \in {0, MaxRows}, n \in {0, MaxRows}, odd \in 2..Len(Tables),
     m \in 0..MaxRows, kind \in RowKinds}

InitLocals ==
  /\ pc = <<"start", 0>>
  /\ run = 1
  /\ rows = EmptyRows
  /\ objs = EmptyStore
  /\ uuid = 0
  /\ log = <<>>
  /\ fail = NoFail
  /\ completed = 0
  /\ doneCounts = {}
  /\ norm_in = NoneV
  /\ norm_out = <<>>

Init ==
  /\ InitLocals
  /\ source \in Sources
  /\ target \in PriorStores
  /\ session = target

Spec == Init /\ [][Next]_vars

\* ------------------------------------------- the transform specification
(* One run of main() that no store fails.  The clients table holds client 1 *)
(* and every child table one row without identifier; one table holds, after *)
(* that row, up to MaxBatch rows drawn from malformed and well-formed rows.  *)
TxtLongId == Rep("9", LoginIdMax + 2)
TxtLongName == Rep("n", FullNameMax + 1)
TxtLongRating == <<"H", "I", "G", "H">> \o Rep("e", RiskRatingMax - 3)
TxtBadDate == <<"2", "0", "2", "1", "-", "0", "2", "-", "2", "9">>

\* values tried in the client_id column of every table
ClientIdValues ==
  {StrV(<<"0", "1">>), StrV(<<" ", "1">>), NoneV, MissingV, IntV(2)}
\* values tried in a row's own identifier column
IdValues ==
  {NoneV, StrV(<<>>), IntV(0), IntV(5), StrV(<<" ", "K", "1">>),
   StrV(<<" ", " ">>), StrV(TxtLongId)}
\* column -> values tried in it, per table
Variations(k) ==
  CASE k = "clients" ->
         {<<"risk_rating", NoneV>>, <<"risk_rating", StrV(<<"l", "o", "w">>)>>,
          <<"risk_rating", StrV(TxtLongRating)>>, <<"risk_rating", StrV(TxtHigh)>>,
          <<"annual_income", StrV(<<"a", "b", "c">>)>>,
          <<"annual_income", StrV(<<" ", "1", "2">>)>>,
          <<"pep_flag", StrV(<<"y", "e", "s">>)>>,
          <<"full_name", IntV(5)>>, <<"full_name", StrV(TxtLongName)>>,
          <<"dob", StrV(TxtBadDate)>>, <<"dob", NoneV>>}
    [] k = "addresses" ->
         {<<"to_date", StrV(TxtDate)>>, <<"from_date", StrV(TxtBadDate)>>,
          <<"city", IntV(7)>>, <<"address_line", NoneV>>}
    [] k = "phones" ->
         {<<"to_date", StrV(TxtBadDate)>>, <<"phone", IntV(555)>>, <<"phone", NoneV>>}
    [] k = "ip_logs" ->
         {<<"logged_in_at", StrV(TxtDate \o <<"Z">>)>>, <<"logged_in_at", NoneV>>,
          <<"status", IntV(1)>>}
    [] k = "txs" ->
         {<<"amount", StrV(<<"a", "b", "c">>)>>, <<"amount", NoneV>>,
          <<"currency", NoneV>>, <<"typology_tags", NoneV>>,
          <<"timestamp", StrV(TxtStamp \o <<"Z">>)>>}
    [] k = "cases" ->
         {<<"closed_at", StrV(TxtStamp)>>, <<"status", NoneV>>, <<"title", IntV(3)>>}
    [] k = "alerts" ->
         {<<"case_id", StrV(<<" ", " ">>)>>, <<"case_id", StrV(<<" ", "K", "1">>)>>,
          <<"description", NoneV>>, <<"severity", IntV(2)>>}
RichRows(k) ==
  {CleanRow(k, IntV(1))}
  \cup (IF k = "clients" THEN {ClientRow(2)} ELSE {})
  \cup {[CleanRow(k, IntV(1)) EXCEPT !.client_id = v] : v \in ClientIdValues}
  \cup {[CleanRow(k, IntV(1)) EXCEPT ![IdColumn(k)] = v] :
          v \in IF IdColumn(k) = "" THEN {} ELSE IdValues}
  \cup {[CleanRow(k, IntV(1)) EXCEPT ![fv[1]] = fv[2]] : fv \in Variations(k)}

RECURSIVE SeqsUpTo(_, _)
\* the sequences over S of length at most n
SeqsUpTo(S, n) ==
  IF n = 0 THEN {<<>>}
  ELSE LET shorter == SeqsUpTo(S, n - 1)
       IN  shorter \cup {Append(q, x) : q \in shorter, x \in S}

RichSources ==
  UNION {{[k \in TableSet |->
             (IF k = "clients" THEN <<ClientRow(1)>> ELSE <<KindRow(k, "noid")>>)
             \o (IF k = f THEN q ELSE <<>>)] : q \in SeqsUpTo(RichRows(f), MaxBatch)} :
         f \in TableSet}

InitTransform ==
  /\ InitLocals
  /\ source \in RichSources
  /\ target = EmptyStore
  /\ session = target

NextTransform ==
  \/ Start
  \/ ClearTarget
  \/ CommitClear
  \/ \E i \in Batches : Extract(i)
  \/ \E b \in Batches : BuildRow(b)
  \/ \E b \in Batches : BuildRaise(b)
  \/ \E b \in Batches : BuildDone(b)
  \/ \E ci \in 1..Len(Classes) : Save(ci)
  \/ \E b \in Batches : Commit(b)
  \/ Summary

TransformSpec == InitTransform /\ [][NextTransform]_vars

\* ------------------------------------------------ the norm specification
(* norm_client_id applied to a source value, then to its own result.        *)
NormAlphabet == {"C", "0", "7", " ", "a", "-"}
TxtSeven == <<"1", "2", "3", "4", "5", "6", "7">>
NormInputs ==
  {StrV(s) : s \in SeqsUpTo(NormAlphabet, MaxLen)}
  \cup {StrV(<<"4", "2">>), StrV(TxtSeven), StrV(TxtSeven \o <<"8">>),
        StrV(<<"C", "0", "0", "0", "0", "0", "4", "2">>),
        StrV(<<" ", "4", "2", " ">>), IntV(42), IntV(0), IntV(-5), NoneV}

InitNorm ==
  /\ pc = <<"norm", 0>>
  /\ run = 1
  /\ source = EmptyRows
  /\ target = EmptyStore
  /\ session = EmptyStore
  /\ rows = EmptyRows
  /\ objs = EmptyStore
  /\ uuid = 0
  /\ log = <<>>
  /\ fail = NoFail
  /\ completed = 0
  /\ doneCounts = {}
  /\ norm_in \in NormInputs
  /\ norm_out = <<>>

\* cid = norm_client_id(v)
NormCall ==
  /\ pc = <<"norm", 0>>
  /\ norm_out = <<>>
  /\ norm_out' = <<norm_client_id(norm_in)>>
  /\ UNCHANGED <<mainVars, norm_in>>

\* norm_client_id(cid): the identifier normalized again
NormAgain ==
  /\ pc = <<"norm", 0>>
  /\ Len(norm_out) = 1
  /\ norm_out' = Append(norm_out, norm_client_id(StrV(norm_out[1])))
  /\ UNCHANGED <<mainVars, norm_in>>

NextNorm == NormCall \/ NormAgain

NormSpec == InitNorm /\ [][NextNorm]_vars

\* ------------------------------------------------------------------ claims
\* the rows of class c that run r inserted, as committed
RowsOfRun(c, r) == SelectSeq(target[c], LAMBDA x : x.run = r)
\* the position of event e in the log, 0 when it is not there
Pos(e) == IF \E i \in DOMAIN log : log[i] = e
          THEN CHOOSE i \in DOMAIN log : log[i] = e ELSE 0
ChildClasses == ClassSet \ {"Client", "RiskResult"}
ClassIndex(c) == CHOOSE i \in 1..Len(Classes) : Classes[i] = c

(* C1: full refresh.  When a run of main() has completed, every class of    *)
(* the target holds only rows that this run inserted, one per row of the     *)
(* class's source table, and the per-class row counts seen at every          *)
(* completed run over the unchanged source are the same.                     *)
C1_FullRefresh ==
  pc[1] = "done" =>
    /\ \A c \in ClassSet :
         /\ \A i \in DOMAIN target[c] : target[c][i].run = run
         /\ Len(target[c]) = Len(source[TableOf(c)])
    /\ Cardinality(doneCounts) <= 1
\* a second run has completed over a target that the first run had filled
C1_Witness ==
  /\ pc[1] = "done"
  /\ completed >= 2
  /\ \A c \in ClassSet : Len(target[c]) > 0

(* C2: batch-level atomicity.  In every committed state of the target,      *)
(* each class holds, of the rows of the current run, either none or exactly  *)
(* the objects transformed from all rows of its source table; Client and     *)
(* RiskResult hold the same number of them.                                  *)
C2_BatchAtomicity ==
  /\ \A c \in ClassSet :
       \/ RowsOfRun(c, run) = <<>>
       \/ /\ Len(objs[c]) = Len(source[TableOf(c)])
          /\ RowsOfRun(c, run) = [i \in DOMAIN objs[c] |-> Stored(run, objs[c][i])]
  /\ Len(RowsOfRun("Client", run)) = Len(RowsOfRun("RiskResult", run))
\* a store failed while the alerts were being saved, after earlier batches
\* had been committed and with alert objects built
C2_Witness ==
  /\ pc[1] = "failed"
  /\ fail = <<"save", 8>>
  /\ Len(objs["Alert"]) > 0
  /\ Len(RowsOfRun("Client", run)) > 0
  /\ Len(RowsOfRun("Case", run)) > 0

\* the batch that was being extracted, transformed or persisted at the failure
FailedBatch ==
  CASE fail[1] = "extract" -> fail[2]
    [] fail[1] = "save" -> BatchOfClass(fail[2])
    [] OTHER -> fail[2]
(* C3: no cross-class rollback.  When a run failed while extracting,        *)
(* transforming or persisting batch k, every class of a batch that was       *)
(* committed before holds all its rows (one per source row, all of this      *)
(* run), and the classes of batch k and of the later batches hold no rows.   *)
C3_NoCrossClassRollback ==
  (pc[1] = "failed" /\ fail[1] \in {"extract", "build", "save", "commit"}) =>
    \A c \in ClassSet :
      IF fail[1] # "extract" /\ BatchOfClass(ClassIndex(c)) < FailedBatch
      THEN /\ Len(target[c]) = Len(source[TableOf(c)])
           /\ \A i \in DOMAIN target[c] : target[c][i].run = run
      ELSE target[c] = <<>>
\* the commit of the transactions failed after clients, addresses, phones and
\* logins had been committed
C3_Witness ==
  /\ pc[1] = "failed"
  /\ fail = <<"commit", 5>>
  /\ Len(objs["Transaction"]) > 0
  /\ Len(target["Client"]) > 0
  /\ Len(target["LoginActivity"]) > 0
  /\ Len(source["alerts"]) > 0

(* C4: load ordering.  The phases of a run follow one fixed order: the      *)
(* committed reset comes first, leaving no row of an earlier run; the seven  *)
(* tables are extracted in order before any row is transformed; the client   *)
(* batch is committed before any child row is transformed or child batch     *)
(* committed; batches are transformed and committed in load order, each row  *)
(* of a batch before the batch's commit; no phase other than a loop          *)
(* iteration happens twice; the summary comes last, after every row of every *)
(* table was transformed and every non-empty batch committed.                *)
C4_LoadOrdering ==
  /\ log # <<>> =>
       /\ log[1] = <<"reset", 0>>
       /\ \A c \in ClassSet : \A i \in DOMAIN target[c] : target[c][i].run = run
  /\ \A i, j \in DOMAIN log :
       /\ (i < j /\ log[i] = log[j]) => log[i][1] = "row"
       /\ (log[i][1] = "extract" /\ log[j][1] = "extract" /\ log[i][2] < log[j][2])
            => i < j
       /\ (log[i][1] = "extract" /\ log[j][1] \in {"row", "commit", "summary"})
            => i < j
       /\ (log[i][1] \in {"row", "commit"} /\ log[j][1] \in {"row", "commit"}
           /\ log[i][2] < log[j][2]) => i < j
       /\ (log[i][1] = "row" /\ log[j][1] = "commit" /\ log[i][2] = log[j][2])
            => i < j
       /\ log[j][1] = "summary" => i <= j
  /\ \A i \in DOMAIN log :
       /\ log[i][1] = "row" => \A k \in Batches : Pos(<<"extract", k>>) # 0
       /\ (log[i][1] \in {"row", "commit"} /\ log[i][2] > 1)
            => Pos(<<"commit", 1>>) # 0
       /\ log[i][1] = "summary" =>
            \A b \in Batches :
              /\ Cardinality({k \in DOMAIN log : log[k] = <<"row", b>>})
                   = Len(source[Tables[b]])
              /\ (b = 1 \/ source[Tables[b]] # <<>>) => Pos(<<"commit", b>>) # 0
  /\ pc[1] = "done" => log[Len(log)] = <<"summary", 0>>
\* a run over seven non-empty tables has printed its summary
C4_Witness ==
  /\ pc[1] = "done"
  /\ \A b \in Batches : Pos(<<"commit", b>>) # 0 /\ Pos(<<"row", b>>) # 0

(* C10: referential sanity.  After a completed run the client_id of every   *)
(* loaded child record is the client_id of a loaded Client.                  *)
C10_ReferentialSanity ==
  pc[1] = "done" =>
    \A c \in ChildClasses : \A i \in DOMAIN target[c] :
      \E j \in DOMAIN target["Client"] :
        target["Client"][j].obj.client_id = target[c][i].obj.client_id

\* "high" at the start of s, in any case
HighAnyCase(s) ==
  /\ Len(s) >= 4
  /\ s[1] \in {"h", "H"} /\ s[2] \in {"i", "I"}
  /\ s[3] \in {"g", "G"} /\ s[4] \in {"h", "H"}
\* how many objects of list q carry client_id cid
CountOf(q, cid) == Cardinality({j \in DOMAIN q : q[j].client_id = cid})

(* C5 as stated: for every transformed Client exactly one RiskResult has    *)
(* its client_id.                                                            *)
C5_ExactlyOneRiskResult ==
  \A i \in DOMAIN objs["Client"] :
    CountOf(objs["RiskResult"], objs["Client"][i].client_id) = 1
(* C5 as amended: the RiskResult list pairs with the Client list position   *)
(* by position (same length, same client_id at each position), so a          *)
(* client_id has as many RiskResults as Clients; each rating is the source   *)
(* rating, or "Standard" when that is null or empty, cut to 16 characters,   *)
(* and the score is 75 when it starts with "high" in any case, else 35.      *)
C5_PairedRiskResults ==
  /\ Len(objs["RiskResult"]) = Len(objs["Client"])
  /\ \A i \in DOMAIN objs["Client"] :
       LET c == objs["Client"][i]
           rr == objs["RiskResult"][i]
           raw == rows["clients"][i].risk_rating
           text == IF raw.t = "none" \/ raw.s = <<>> THEN TxtStandard ELSE raw.s
       IN  /\ rr.client_id = c.client_id
           /\ CountOf(objs["RiskResult"], c.client_id) = CountOf(objs["Client"], c.client_id)
           /\ Len(c.risk_rating.s) <= RiskRatingMax
           /\ c.risk_rating.s = SubSeq(text, 1, Len(c.risk_rating.s))
           /\ (Len(text) <= RiskRatingMax => c.risk_rating.s = text)
           /\ rr.risk_score = FloatV(IF HighAnyCase(c.risk_rating.s)
                                     THEN HighScore ELSE StandardScore)
\* two clients were transformed and saved: "High Risk" scored 75, and the
\* second, of another client_id and with a null rating, "Standard" and 35
C5_Witness ==
  /\ Len(session["RiskResult"]) = 2
  /\ objs["Client"][1].risk_rating.s = TxtHighRisk
  /\ objs["RiskResult"][1].risk_score.n = HighScore
  /\ rows["clients"][2].risk_rating.t = "none"
  /\ objs["Client"][2].risk_rating.s = TxtStandard
  /\ objs["RiskResult"][2].risk_score.n = StandardScore
  /\ objs["Client"][1].client_id # objs["Client"][2].client_id

(* C8: coercion totality.  A loop iteration raises only for a row that has  *)
(* no client_id key.                                                        *)
C8_CoercionTotality ==
  (pc[1] = "failed" /\ fail[1] = "build") =>
    NextRow(fail[2]).client_id.t = "missing"

\* the classes whose objects carry an identifier of their own
IdClasses == {"LoginActivity", "Transaction", "Case", "Alert"}
IdField(c) ==
  CASE c = "LoginActivity" -> "login_id"
    [] c = "Transaction" -> "tx_id"
    [] c = "Case" -> "case_id"
    [] c = "Alert" -> "alert_id"
SynthPrefix(c) ==
  CASE c = "LoginActivity" -> PrefixLogin
    [] c = "Transaction" -> <<>>
    [] c = "Case" -> PrefixCase
    [] c = "Alert" -> PrefixAlert
SynthHexLen(c) ==
  CASE c = "LoginActivity" -> LoginHexLen
    [] c = "Transaction" -> UuidHexLen
    [] c = "Case" -> CaseHexLen
    [] c = "Alert" -> AlertHexLen
IdMax(c) ==
  CASE c = "LoginActivity" -> LoginIdMax
    [] c = "Transaction" -> TxIdMax
    [] c = "Alert" -> AlertIdMax
\* the source identifier of the i-th object of class c, and the identifier it got
SourceId(c, i) == rows[TableOf(c)][i][IdColumn(TableOf(c))]
BuiltId(c, i) == objs[c][i][IdField(c)].s
\* <<class, position>> of every object built so far that has an identifier
Built == UNION {{<<c, i>> : i \in DOMAIN objs[c]} : c \in IdClasses}
\* the row has no identifier: null or empty text
Lacks(v) == v.t = "none" \/ (v.t = "str" /\ v.s = <<>>)
\* what Python takes for false: null, empty text, zero
Falsy(v) == Lacks(v) \/ (v.t \in {"int", "float"} /\ v.n = 0)
\* nothing is left of the value once stringified and stripped
Blank(v) == v.t = "none" \/ \A k \in DOMAIN Str(v) : Str(v)[k] = " "
IsPrefixOf(p, s) == Len(p) <= Len(s) /\ p = SubSeq(s, 1, Len(p))

(* C9 as stated: an object whose source row lacks the identifier gets one   *)
(* that starts with the prefix of its class, different from every other      *)
(* synthesized one; otherwise it keeps the source identifier, cut to the     *)
(* maximum of its field (for a case: cut to some length).                    *)
C9_IdentifierSynthesis ==
  \A x \in Built :
    LET c == x[1]
        v == SourceId(c, x[2])
        id == BuiltId(c, x[2])
    IN  IF Lacks(v)
        THEN /\ IsPrefixOf(SynthPrefix(c), id)
             /\ \A y \in Built :
                  (y # x /\ Lacks(SourceId(y[1], y[2]))) => BuiltId(y[1], y[2]) # id
        ELSE IF c = "Case" THEN IsPrefixOf(id, Str(v))
        ELSE id = SubSeq(Str(v), 1, Min(IdMax(c), Len(Str(v))))

\* the identifiers the amended claim counts as synthesized: those of logins,
\* transactions and alerts whose source value is false, those of cases whose
\* source value is blank, and the case links of alerts whose source value is
\* true and blank
SynthOwn == {x \in Built : IF x[1] = "Case" THEN Blank(SourceId(x[1], x[2]))
                                            ELSE Falsy(SourceId(x[1], x[2]))}
SynthLinks == {i \in DOMAIN objs["Alert"] :
                 ~Falsy(rows["alerts"][i].case_id) /\ Blank(rows["alerts"][i].case_id)}
SynthIds == {BuiltId(x[1], x[2]) : x \in SynthOwn}
            \cup {objs["Alert"][i].case_id.s : i \in SynthLinks}
(* C9 as amended: a login, transaction or alert whose source identifier is  *)
(* null, empty or zero, and a case whose source identifier is null or blank, *)
(* gets the class prefix (LG-, AL-, CASE-, none for a transaction) followed  *)
(* by the first 24, 22, 20 or 32 characters of a token drawn for it; every   *)
(* token drawn gives one synthesized identifier and no two of the run are    *)
(* equal; otherwise a login, transaction or alert keeps str(identifier) cut  *)
(* to 40, 32 or 40 characters and a case keeps it stripped and uncut, and no *)
(* token is drawn.                                                           *)
C9_IdentifierSynthesisAmended ==
  /\ \A x \in Built :
       LET c == x[1]
           v == SourceId(c, x[2])
           id == BuiltId(c, x[2])
       IN  IF x \in SynthOwn
           THEN \E n \in 0..(uuid - 1) :
                  id = SynthPrefix(c) \o SubSeq(Uuid4Hex(n), 1, SynthHexLen(c))
           ELSE IF c = "Case" THEN id = Strip(Str(v))
           ELSE id = SubSeq(Str(v), 1, Min(IdMax(c), Len(Str(v))))
  /\ Cardinality(SynthIds) = Cardinality(SynthOwn) + Cardinality(SynthLinks)
  /\ uuid = Cardinality(SynthOwn) + Cardinality(SynthLinks)
\* a run completed in which two logins and a case got synthesized identifiers
\* and a transaction kept an identifier of more than 32 characters, cut
C9_Witness ==
  /\ pc[1] = "done"
  /\ Cardinality({x \in SynthOwn : x[1] = "LoginActivity"}) = 2
  /\ <<"Case", 1>> \in SynthOwn
  /\ uuid >= 5

\* the letter C followed by at least seven digits and nothing else
Canonical(s) == Len(s) >= ClientIdWidth + 1 /\ s[1] = "C" /\ AllDigits(Tail(s))
\* the text norm_client_id works on: str(v) without the blanks around it
NormText == Strip(Str(norm_in))

(* C6 as stated: for every source value the normalized client identifier is *)
(* C followed by at least seven digits and nothing else.                    *)
C6_CanonicalFormat == norm_out # <<>> => Canonical(norm_out[1])
(* C6 as amended: for every source value whose text, stripped, consists of  *)
(* digits only (possibly none), the normalized identifier is C followed by   *)
(* at least seven digits and nothing else: the text itself when it has seven *)
(* digits or more, else the text left-padded with zeros to seven digits.     *)
C6_CanonicalFormatOfDigits ==
  (norm_out # <<>> /\ AllDigits(NormText)) =>
    /\ Canonical(norm_out[1])
    /\ Len(norm_out[1]) = 1 + (IF Len(NormText) < 7 THEN 7 ELSE Len(NormText))
    /\ SubSeq(norm_out[1], Len(norm_out[1]) - Len(NormText) + 1, Len(norm_out[1])) = NormText
    /\ \A i \in 2..(Len(norm_out[1]) - Len(NormText)) : norm_out[1][i] = "0"
\* "42" gave C0000042
C6_Witness ==
  /\ norm_in = StrV(<<"4", "2">>)
  /\ norm_out # <<>>
  /\ norm_out[1] = <<"C", "0", "0", "0", "0", "0", "4", "2">>

(* C7: idempotence.  Normalizing a normalized client identifier returns it  *)
(* unchanged, and a text that is canonical already (C and at least seven     *)
(* digits) is returned as it is.                                            *)
C7_Idempotent ==
  /\ Len(norm_out) = 2 => norm_out[2] = norm_out[1]
  /\ (norm_out # <<>> /\ norm_in.t = "str" /\ Canonical(norm_in.s))
       => norm_out[1] = norm_in.s
\* " 42 " was normalized to C0000042, and that again
C7_Witness ==
  /\ norm_in = StrV(<<" ", "4", "2", " ">>)
  /\ Len(norm_out) = 2
  /\ norm_out[1] = <<"C", "0", "0", "0", "0", "0", "4", "2">>
====
